---- MODULE Spec2Model ----
(***************************************************************************)
(* evering: deployment pipeline (process.py), known-files store            *)
(* (known_files.py), prompts (prompt.py) and the file helpers (util.py).   *)
(*                                                                         *)
(* Spec       one session of a Processor over a KnownFiles store:          *)
(*            process_file(path, header_path) applied to up to MaxFiles    *)
(*            source files, then find_forgotten_files and save_final, with *)
(*            I/O failures and a process kill possible at every step.      *)
(* SpecTwice  two consecutive sessions over the same sources, without I/O  *)
(*            failure.                                                     *)
(*                                                                         *)
(* A source file's target list is revealed one entry at a time: the list   *)
(* is fixed data, so drawing its next entry when the loop reaches it is    *)
(* the same as drawing the whole list beforehand.                          *)
(***************************************************************************)
EXTENDS Integers, Sequences, FiniteSets, TLC

\* ------------------------------------------------------------------ bounds

\* Source files processed in one session.
MaxFiles == 2
\* Entries in the target lists of one session's source files, together.
MaxTargets == 3
\* Distinct complete file contents (source bytes, foreign target bytes).
NumContents == 2
\* Lines of a template handed to Parser.
MaxLines == 4

\* ------------------------------------------------------------ the universe

\* Target files, named by their resolved absolute path.
Paths == {"/h/a", "/h/b"}

\* Spellings a target list can hold: "/h/l" is a symbolic link to "/h/a".
TargetNames == {"/h/a", "/h/l", "/h/b"}

Contents == 1 .. NumContents

\* What a file holds after it was opened for writing and before the write
\* completed: truncated or partly written bytes.
Partial == 0

None == <<"None">>

\* A path -> hash map without entries.
EmptyMap == [p \in {} |-> None]

\* Path.expanduser().resolve(): the link is replaced by what it points to.
_normalize_path(path) == IF path = "/h/l" THEN "/h/a" ELSE path

\* hashlib.sha256 over the whole content, block by block; IOError -> None.
\* The digest is collision free here.
_obtain_hash(file, readable) ==
    IF readable /\ file.kind = "file" THEN <<"sha256", file.content>> ELSE None

Absent == [kind |-> "absent", content |-> Partial]
Directory == [kind |-> "dir", content |-> Partial]
RegularFile(c) == [kind |-> "file", content |-> c]

\* json.dumps of {str(path): hash}: the document is its set of members.
Dumps(known) == {<<p, known[p]>> : p \in DOMAIN known}

\* _read_known_files: the members of the root object, keys normalized.
_read_known_files(doc) ==
    [p \in {_normalize_path(kv[1]) : kv \in doc} |->
        (CHOOSE kv \in doc : _normalize_path(kv[1]) = p)[2]]

\* A file holding a JSON document, missing, or cut short while written.
Missing == [state |-> "missing", doc |-> {}]
Cut == [state |-> "cut", doc |-> {}]
Whole(doc) == [state |-> "whole", doc |-> doc]

\* A store file json.loads rejects, one whose root is no object (a list, a
\* number), and one whose root object has a value that is no string.
NotJson == [state |-> "not_json", doc |-> {}]
NotObject == [state |-> "not_object", doc |-> {}]
BadValue == [state |-> "bad_value", doc |-> {}]

\* KnownFiles.__init__: a missing file starts empty.
LoadKnownFiles(file) ==
    IF file.state = "whole" THEN _read_known_files(file.doc) ELSE EmptyMap

VARIABLES
    fs,               \* target files: Paths -> [kind, content]
    kf_file,          \* the known-files store file
    tmp_file,         \* its ".tmp" sibling
    old_known_files,  \* KnownFiles._old_known_files
    new_known_files,  \* KnownFiles._new_known_files
    pc,               \* where the session is
    files_done,       \* process_file calls made in this session
    cur,              \* the source file being processed
    tcount,           \* target list entries taken so far in this session
    target,           \* the current entry of the target list
    verdict,          \* what _justify_target found for it, before any prompt
    input,            \* the operator's last line at a prompt, lower-cased
    save_text,        \* _save's argument
    save_kind,        \* "incremental" or "final": who called _save
    forgotten,        \* what find_forgotten_files returned
    last_save,        \* the save whose rename completed last
    fs0,              \* the target files when the session started
    kf0,              \* the store file when the session started
    committed,        \* targets whose _update_known_hash returned
    named,            \* resolved paths the target lists named so far
    status,           \* per path, how its prompts were answered so far:
                      \* "none", "declined", "accepted" or "mixed"
    twice,            \* two sessions are played
    run,              \* 1 or 2
    sources,          \* the first session's sources with their target lists,
                      \* then what the second session has not yet taken
    after1,           \* fs and store file when the first session ended
    dry_run,          \* args.dry_run
    config_files,     \* source files find_config_files returned, not yet taken
    raw_lines,        \* Parser.__init__'s raw_lines
    local_vars,       \* the bindings evaluate is given
    parser,           \* the Parser constructed, or the exception raised
    rendered,         \* what Parser.evaluate returned or raised
    objects,          \* the values bindings refer to, by identity
    self_config,      \* Processor.config.local_vars: name -> object
    config,           \* process_file's config.local_vars
    config_copy,      \* _process_parseable's config_copy.local_vars
    source_text,      \* the lines of a source read without a header file
    script            \* the header script safer_exec is given

vars == <<fs, kf_file, tmp_file, old_known_files, new_known_files, pc,
          files_done, cur, tcount, target, verdict, input, save_text,
          save_kind, forgotten, last_save, fs0, kf0, committed, named, status,
          twice, run, sources, after1, dry_run, config_files, raw_lines,
          local_vars, parser, rendered, objects, self_config, config,
          config_copy, source_text, script>>

\* Variant: a store that never reports a path as written in this session.
was_recently_modified_never(path) == FALSE

\* KnownFiles.was_recently_modified
was_recently_modified(path) ==
    _normalize_path(path) \in DOMAIN new_known_files

\* Variant: get_hash that looks in the new generation only.
get_hash_new_only(path) ==
    LET p == _normalize_path(path) IN
    IF p \in DOMAIN new_known_files THEN new_known_files[p] ELSE None

\* KnownFiles.get_hash: the new generation first, then the old one.
get_hash(path) ==
    LET p == _normalize_path(path) IN
    IF p \in DOMAIN new_known_files THEN new_known_files[p]
    ELSE IF p \in DOMAIN old_known_files THEN old_known_files[p]
    ELSE None

\* Variant: update_file that keeps the path as it was spelled.
update_file_raw(path, file_hash) == (path :> file_hash) @@ new_known_files

\* KnownFiles.update_file
update_file(path, file_hash) ==
    (_normalize_path(path) :> file_hash) @@ new_known_files

\* Variant: save_incremental that serializes the new generation only.
save_incremental_new_only(old, new) == Dumps(new)

\* KnownFiles.save_incremental, the text it hands to _save: every path of
\* the old and the new generation, the new one's hash where it has one.
save_incremental(old, new) ==
    Dumps([p \in DOMAIN old \cup DOMAIN new |->
            IF p \in DOMAIN new THEN new[p] ELSE old[p]])

\* Variant: save_final that keeps the old generation's other paths.
save_final_with_old(new) ==
    Dumps([p \in DOMAIN old_known_files \cup DOMAIN new |->
            IF p \in DOMAIN new THEN new[p] ELSE old_known_files[p]])

\* KnownFiles.save_final, the text it hands to _save: the new generation.
save_final(new) == Dumps(new)

\* Variant: find_forgotten_files that reports every path of the old
\* generation.
find_forgotten_files_all == DOMAIN old_known_files

\* Variant: find_forgotten_files that reports nothing.
find_forgotten_files_none == {}

\* KnownFiles.find_forgotten_files
find_forgotten_files == DOMAIN old_known_files \ DOMAIN new_known_files

\* str.lower on the lines an operator types here.
Lower(line) ==
    CASE line = "Y" -> "y"
      [] line = "A" -> "a"
      [] OTHER -> line

\* prompt_choice(question, options): the line is lower-cased; an empty line
\* takes the upper-case option if there is one ("" when there is none), a
\* line that is one of the lower-cased options is returned, anything else
\* asks again ("again").
prompt_choice(line, options, default_option) ==
    LET result == Lower(line) IN
    IF result = "" /\ default_option # "" THEN default_option
    ELSE IF result \in options THEN result
    ELSE "again"

\* Variant: prompt_yes_no(question, True), options "Yn".
prompt_yes_no_default_yes(line) ==
    LET result == prompt_choice(line, {"y", "n"}, "Y") IN
    IF result = "again" THEN "again"
    ELSE IF Lower(result) = "y" THEN "yes" ELSE "no"

\* prompt_yes_no(question, False): options "yN", result.lower() == "y".
prompt_yes_no(line) ==
    LET result == prompt_choice(line, {"y", "n"}, "N") IN
    IF result = "again" THEN "again"
    ELSE IF Lower(result) = "y" THEN "yes" ELSE "no"

\* The file a path leads to: exists, is_file and open follow the link.
FileAt(path) == fs[_normalize_path(path)]

\* Variant: _justify_target that writes over a file whose hash differs from
\* the recorded one without asking.
_justify_target_trusting(path, target_hash) ==
    IF FileAt(path).kind = "absent" THEN "write"
    ELSE IF FileAt(path).kind # "file" THEN "refuse"
    ELSE IF was_recently_modified(path) THEN "refuse"
    ELSE IF target_hash = None THEN "ask"
    ELSE IF get_hash(path) = None THEN "ask"
    ELSE "write"

\* Variant: _justify_target without the was_recently_modified check.
_justify_target_again(path, target_hash) ==
    IF FileAt(path).kind = "absent" THEN "write"
    ELSE IF FileAt(path).kind # "file" THEN "refuse"
    ELSE IF target_hash = None THEN "ask"
    ELSE IF get_hash(path) = None THEN "ask"
    ELSE IF target_hash = get_hash(path) THEN "write"
    ELSE "ask"

\* Variant: _justify_target without the is_file check.
_justify_target_any_kind(path, target_hash) ==
    IF FileAt(path).kind = "absent" THEN "write"
    ELSE IF was_recently_modified(path) THEN "refuse"
    ELSE IF target_hash = None THEN "ask"
    ELSE IF get_hash(path) = None THEN "ask"
    ELSE IF target_hash = get_hash(path) THEN "write"
    ELSE "ask"

\* Processor._justify_target, up to its prompt: "write", "refuse" or "ask".
_justify_target(path, target_hash) ==
    IF FileAt(path).kind = "absent" THEN "write"
    ELSE IF FileAt(path).kind # "file" THEN "refuse"
    ELSE IF was_recently_modified(path) THEN "refuse"
    ELSE IF target_hash = None THEN "ask"
    ELSE IF get_hash(path) = None THEN "ask"
    ELSE IF target_hash = get_hash(path) THEN "write"
    ELSE "ask"

Terminal == {"done", "aborted", "fatal", "crashed", "killed"}

\* ---------------------------------------------------------------- initial

KnownMaps ==
    UNION {[S -> {<<"sha256", c>> : c \in Contents}] : S \in SUBSET Paths}

NoSource == [header |-> TRUE, binary |-> TRUE, content |-> 1]

\* The bindings are not looked at.
NoBindings ==
    /\ objects = << >>
    /\ self_config = << >>
    /\ config = << >>
    /\ config_copy = << >>
    /\ source_text = << >>
    /\ script = << >>

InitCommon ==
    /\ fs \in [Paths -> {Absent, Directory} \cup {RegularFile(c) : c \in Contents}]
    /\ kf_file \in {Missing} \cup {Whole(Dumps(m)) : m \in KnownMaps}
    /\ tmp_file = Missing
    /\ old_known_files = LoadKnownFiles(kf_file)
    /\ new_known_files = EmptyMap
    /\ pc = "files"
    /\ files_done = 0
    /\ cur = NoSource
    /\ tcount = 0
    /\ target = "None"
    /\ verdict = "-"
    /\ input = "-"
    /\ save_text = {}
    /\ save_kind = "none"
    /\ forgotten = {}
    /\ last_save = "none"
    /\ fs0 = fs
    /\ kf0 = kf_file
    /\ committed = EmptyMap
    /\ named = {}
    /\ status = [p \in Paths |-> "none"]
    /\ run = 1
    /\ sources = << >>
    /\ after1 = [fs |-> fs, kf_file |-> kf_file, clean |-> FALSE]
    /\ dry_run = FALSE
    /\ config_files = 0
    /\ raw_lines = << >>
    /\ local_vars = << >>
    /\ parser = None
    /\ rendered = None
    /\ NoBindings

Init == InitCommon /\ twice = FALSE

\* Variables by group, for UNCHANGED.
disk == <<fs, kf_file, tmp_file>>
known == <<old_known_files, new_known_files>>
file_vars == <<files_done, cur>>
target_vars == <<tcount, target, verdict, input>>
save_vars == <<save_text, save_kind, forgotten>>
hist == <<last_save, fs0, kf0, committed, named, status>>
bindings == <<objects, self_config, config, config_copy, source_text, script>>
aside == <<dry_run, config_files, raw_lines, local_vars, parser, rendered,
           bindings>>
replay == <<twice, run, sources, after1, aside>>

\* The process ends without finishing the session: "crashed" by an exception
\* no handler catches, "aborted" or "fatal" by main's handler of
\* CatastrophicError, "killed" from outside.  What it held in memory is
\* gone, the files stay.
Dies(how) ==
    /\ pc' = how
    /\ old_known_files' = EmptyMap
    /\ new_known_files' = EmptyMap
    /\ files_done' = 0
    /\ cur' = NoSource
    /\ tcount' = 0
    /\ target' = "None"
    /\ verdict' = "-"
    /\ input' = "-"
    /\ save_text' = {}
    /\ save_kind' = "none"
    /\ forgotten' = {}
    /\ named' = {}
    /\ status' = [p \in Paths |-> "none"]
    /\ UNCHANGED <<disk, last_save, fs0, kf0, committed, replay>>

\* The target loop goes to its next turn ("continue", or the end of the
\* loop body).
NextTurn ==
    /\ pc' = "targets"
    /\ target' = "None"
    /\ verdict' = "-"
    /\ input' = "-"

\* ------------------------------------------------ process_file, per source

\* The source a session may process next: any in the first session, the
\* recorded one when the first session is played again.
Replaying == twice /\ run = 2

CanStart(header, binary, content) ==
    /\ pc = "files"
    /\ files_done < MaxFiles
    /\ Replaying =>
         /\ sources # << >>
         /\ Head(sources).header = header
         /\ Head(sources).binary = binary
         /\ Head(sources).content = content

Recorded(header, binary, content) ==
    IF twice /\ run = 1
    THEN Append(sources, [header |-> header, binary |-> binary,
                          content |-> content, targets |-> << >>])
    ELSE sources

\* process_file with a header file: the header is read and executed, and a
\* non-binary source is read; the target loop of _process_binary or of
\* _process_parseable starts.
StartHeaderFile ==
    \E binary \in BOOLEAN, content \in Contents :
        /\ CanStart(TRUE, binary, content)
        /\ cur' = [header |-> TRUE, binary |-> binary, content |-> content]
        /\ files_done' = files_done + 1
        /\ pc' = "targets"
        /\ sources' = Recorded(TRUE, binary, content)
        /\ UNCHANGED <<disk, known, target_vars, save_vars, hist, twice, run,
                       after1, aside>>

\* process_file without a header file: the source is read.  "binary" is
\* what the bindings hold for it, the default or what the header inside the
\* source would set: _process_file_without_header never looks at it.
StartInlineFile ==
    \E binary \in BOOLEAN, content \in Contents :
        /\ CanStart(FALSE, binary, content)
        /\ cur' = [header |-> FALSE, binary |-> binary, content |-> content]
        /\ files_done' = files_done + 1
        /\ pc' = "split"
        /\ UNCHANGED <<disk, known, target_vars, save_vars, hist, replay>>

\* split_header_and_rest(text) is called, a name process.py never imported
\* (parser.__all__ leaves it out): NameError, caught nowhere.
SplitNameError ==
    /\ pc = "split"
    /\ Dies("crashed")

\* The header or the source cannot be read, or the header script raises:
\* LessCatastrophicError, before any target.
StartFileFails ==
    /\ pc = "files"
    /\ files_done < MaxFiles
    /\ files_done' = files_done + 1
    /\ pc' = "lce"
    /\ UNCHANGED <<disk, known, cur, target_vars, save_vars, hist, replay>>

\* Variant: the caller's handler running the end of the session on "a"
\* instead of raising CatastrophicError.
AnswerContinueOrAbortFinalizes ==
    \E line \in {"", "c", "a", "A", "x"} :
        LET result == prompt_choice(line, {"c", "a"}, "C") IN
        /\ pc = "lce"
        /\ IF result = "a"
           THEN /\ forgotten' = find_forgotten_files
                /\ save_text' = save_final(new_known_files)
                /\ save_kind' = "final"
                /\ pc' = "save_open"
                /\ input' = "-"
                /\ UNCHANGED <<disk, known, file_vars, tcount, target, verdict,
                               hist, replay>>
           ELSE /\ pc' = IF result = "again" THEN "lce" ELSE "files"
                /\ input' = "-"
                /\ UNCHANGED <<disk, known, file_vars, tcount, target, verdict,
                               save_vars, hist, replay>>

\* The caller's handler of LessCatastrophicError, prompt_choice(.., "Ca"):
\* "a" raises CatastrophicError("Aborted"), anything else goes on with the
\* next source.
AnswerContinueOrAbort ==
    \E line \in {"", "c", "a", "A", "x"} :
        LET result == prompt_choice(line, {"c", "a"}, "C") IN
        /\ pc = "lce"
        /\ IF result = "a" THEN Dies("aborted")
           ELSE /\ pc' = IF result = "again" THEN "lce" ELSE "files"
                /\ input' = "-"
                /\ UNCHANGED <<disk, known, file_vars, tcount, target, verdict,
                               save_vars, hist, replay>>

\* ------------------------------------------- the target loop, per target

\* The next entry of the current source's target list, if it has one.
HasTarget(t) ==
    /\ pc = "targets"
    /\ tcount < MaxTargets
    /\ Replaying =>
         /\ Head(sources).targets # << >>
         /\ Head(Head(sources).targets) = t

NoTargetLeft ==
    /\ pc = "targets"
    /\ Replaying => Head(sources).targets = << >>

WithTarget(t) ==
    IF twice /\ run = 1
    THEN [sources EXCEPT ![Len(sources)].targets = Append(@, t)]
    ELSE IF Replaying
    THEN [sources EXCEPT ![1].targets = Tail(@)]
    ELSE sources

\* One turn of "for target in config.targets" up to the end of
\* _justify_target's checks: the target is written, skipped, or the
\* operator is asked.
Justify(t, target_hash) ==
    /\ target' = t
    /\ tcount' = tcount + 1
    /\ named' = named \cup {_normalize_path(t)}
    /\ input' = "-"
    /\ verdict' = _justify_target(t, target_hash)
    /\ pc' = CASE verdict' = "write" -> "justified"
               [] verdict' = "refuse" -> "skipping"
               [] verdict' = "ask" -> "prompt"
    /\ sources' = WithTarget(t)
    /\ UNCHANGED <<disk, known, file_vars, save_vars, last_save, fs0, kf0,
                   committed, status, twice, run, after1, aside>>

TakeTarget ==
    \E t \in TargetNames :
        /\ HasTarget(t)
        /\ Justify(t, _obtain_hash(FileAt(t), TRUE))

\* _obtain_hash meets an IOError on the existing target and returns None.
TakeTargetHashFails ==
    \E t \in TargetNames :
        /\ HasTarget(t)
        /\ FileAt(t).kind = "file"
        /\ ~was_recently_modified(t)
        /\ Justify(t, _obtain_hash(FileAt(t), FALSE))

\* The target list is exhausted: process_file returns.
NoMoreTargets ==
    /\ NoTargetLeft
    /\ pc' = "files"
    /\ cur' = NoSource
    /\ sources' = IF Replaying THEN Tail(sources) ELSE sources
    /\ UNCHANGED <<disk, known, files_done, target_vars, save_vars, hist,
                   twice, run, after1, aside>>

\* prompt_yes_no(.., False) inside _justify_target: one line of input.
Mark(p, result) ==
    LET answer == IF result = "yes" THEN "accepted" ELSE "declined" IN
    IF result = "again" \/ status[p] \in {answer, "mixed"} THEN status
    ELSE IF status[p] = "none" THEN [status EXCEPT ![p] = answer]
    ELSE [status EXCEPT ![p] = "mixed"]

AnswerYesNo ==
    \E line \in {"", "y", "Y", "n", "x"} :
        LET result == prompt_yes_no(line) IN
        /\ pc = "prompt"
        /\ input' = IF result = "again" THEN input ELSE Lower(line)
        /\ status' = Mark(_normalize_path(target), result)
        /\ pc' = CASE result = "yes" -> "justified"
                   [] result = "no" -> "skipping"
                   [] result = "again" -> "prompt"
        /\ UNCHANGED <<disk, known, file_vars, tcount, target, verdict, save_vars,
                       last_save, fs0, kf0, committed, named, replay>>

\* _justify_target returned False: "Skipping this target", continue.
SkipTarget ==
    /\ pc = "skipping"
    /\ NextTurn
    /\ UNCHANGED <<disk, known, file_vars, tcount, save_vars, hist, replay>>

\* _process_parseable after _justify_target: config.copy(), then
\* Parser(lines, statement_prefix=.., expression_prefix=..,
\* expression_suffix=..), keywords Parser.__init__ does not have: TypeError,
\* which "except ParseException" does not catch.
ParserTypeError ==
    /\ pc = "justified"
    /\ ~cur.binary
    /\ Dies("crashed")

\* Variant: the copy path taken whatever "binary" says.
MkdirAnySource ==
    /\ pc = "justified"
    /\ pc' = "copy_open"
    /\ verdict' = "-"
    /\ input' = "-"
    /\ UNCHANGED <<disk, known, file_vars, tcount, target, save_vars, hist,
                   replay>>

\* _process_binary: target.parent.mkdir(parents=True, exist_ok=True).
Mkdir ==
    /\ pc = "justified"
    /\ cur.binary
    /\ pc' = "copy_open"
    /\ verdict' = "-"
    /\ input' = "-"
    /\ UNCHANGED <<disk, known, file_vars, tcount, target, save_vars, hist,
                   replay>>

MkdirFails ==
    /\ pc = "justified"
    /\ cur.binary
    /\ NextTurn
    /\ UNCHANGED <<disk, known, file_vars, tcount, save_vars, hist, replay>>

\* shutil.copy, first half: the source is opened, the target is opened for
\* writing, which creates or truncates it.
CopyOpen ==
    /\ pc = "copy_open"
    /\ fs' = [fs EXCEPT ![_normalize_path(target)] = RegularFile(Partial)]
    /\ pc' = "copy_write"
    /\ UNCHANGED <<kf_file, tmp_file, known, file_vars, target_vars, save_vars,
                   hist, replay>>

\* Neither file could be opened: IOError, the target is skipped.
CopyOpenFails ==
    /\ pc = "copy_open"
    /\ NextTurn
    /\ UNCHANGED <<disk, known, file_vars, tcount, save_vars, hist, replay>>

\* shutil.copy, second half: the bytes, then the mode bits.
CopyWrite ==
    /\ pc = "copy_write"
    /\ fs' = [fs EXCEPT ![_normalize_path(target)] = RegularFile(cur.content)]
    /\ pc' = "copied"
    /\ UNCHANGED <<kf_file, tmp_file, known, file_vars, target_vars, save_vars,
                   hist, replay>>

\* The write stops part-way: IOError, the target is skipped as it is.
CopyWriteFails ==
    /\ pc = "copy_write"
    /\ NextTurn
    /\ UNCHANGED <<disk, known, file_vars, tcount, save_vars, hist, replay>>

\* The bytes are written and shutil.copy's own copymode fails: IOError, the
\* target is skipped.
CopyInnerModeFails ==
    /\ pc = "copy_write"
    /\ fs' = [fs EXCEPT ![_normalize_path(target)] = RegularFile(cur.content)]
    /\ NextTurn
    /\ UNCHANGED <<kf_file, tmp_file, known, file_vars, tcount, save_vars, hist,
                   replay>>

\* shutil.copymode(path, target) raises an OSError, which is no
\* shutil.Error: the handler does not catch it, nor does any caller.
CopymodeFails ==
    /\ pc = "copied"
    /\ Dies("crashed")

\* Variant: update_file that also writes into the old generation.
UpdateKnownHashIntoOld ==
    /\ pc = "copied"
    /\ new_known_files' = update_file(target, _obtain_hash(FileAt(target), TRUE))
    /\ old_known_files' = (_normalize_path(target) :> _obtain_hash(FileAt(target), TRUE))
                             @@ old_known_files
    /\ save_text' = save_incremental(old_known_files', new_known_files')
    /\ save_kind' = "incremental"
    /\ pc' = "save_open"
    /\ UNCHANGED <<disk, file_vars, target_vars, forgotten, hist, replay>>

\* Variant: _update_known_hash that returns without save_incremental.
UpdateKnownHashUnsaved ==
    /\ pc = "copied"
    /\ new_known_files' = update_file(target, _obtain_hash(FileAt(target), TRUE))
    /\ committed' = new_known_files'
    /\ NextTurn
    /\ UNCHANGED <<disk, old_known_files, file_vars, tcount, save_vars,
                   last_save, fs0, kf0, named, status, replay>>

\* shutil.copymode succeeds, then _update_known_hash: hash the target,
\* update_file, and save_incremental up to its call of _save.
UpdateKnownHash ==
    /\ pc = "copied"
    /\ new_known_files' = update_file(target, _obtain_hash(FileAt(target), TRUE))
    /\ save_text' = save_incremental(old_known_files, new_known_files')
    /\ save_kind' = "incremental"
    /\ pc' = "save_open"
    /\ UNCHANGED <<disk, old_known_files, file_vars, target_vars, forgotten,
                   hist, replay>>

\* Variant: a failed hash of the written target taken as a warning, the
\* loop going on with the next target.
UpdateKnownHashFailsSkips ==
    /\ pc = "copied"
    /\ NextTurn
    /\ UNCHANGED <<disk, known, file_vars, tcount, save_vars, hist, replay>>

\* _update_known_hash cannot hash the written target: LessCatastrophicError
\* leaves process_file.
UpdateKnownHashFails ==
    /\ pc = "copied"
    /\ pc' = "lce"
    /\ cur' = NoSource
    /\ target' = "None"
    /\ verdict' = "-"
    /\ UNCHANGED <<disk, known, files_done, tcount, input, save_vars, hist, replay>>

\* ------------------------------------------------------ KnownFiles._save

\* Variant: _save that opens the store file itself for writing.
SaveOpenInPlace ==
    /\ pc = "save_open"
    /\ kf_file' = Cut
    /\ pc' = "save_write"
    /\ UNCHANGED <<fs, tmp_file, known, file_vars, target_vars, save_vars, hist,
                   replay>>

\* write_file(path + ".tmp", text): open(.., "w") creates or truncates.
SaveOpen ==
    /\ pc = "save_open"
    /\ tmp_file' = Cut
    /\ pc' = "save_write"
    /\ UNCHANGED <<fs, kf_file, known, file_vars, target_vars, save_vars, hist, replay>>

\* write_file: f.write(text) and close.
SaveWrite ==
    /\ pc = "save_write"
    /\ tmp_file' = Whole(save_text)
    /\ pc' = "save_rename"
    /\ UNCHANGED <<fs, kf_file, known, file_vars, target_vars, save_vars, hist, replay>>

\* path.replace(self._path): the rename; _save returns to save_incremental
\* and the target loop, or to save_final and the end of the session.
SaveRename ==
    /\ pc = "save_rename"
    /\ kf_file' = tmp_file
    /\ tmp_file' = Missing
    /\ last_save' = save_kind
    /\ committed' = IF save_kind = "incremental" THEN new_known_files ELSE committed
    /\ pc' = IF save_kind = "incremental" THEN "targets" ELSE "done"
    /\ target' = "None"
    /\ verdict' = "-"
    /\ save_text' = {}
    /\ save_kind' = "none"
    /\ after1' = IF twice /\ run = 1 /\ save_kind = "final"
                 THEN [fs |-> fs, kf_file |-> kf_file',
                       clean |-> \A p \in Paths :
                                    status[p] \in {"none", "accepted"}]
                 ELSE after1
    /\ UNCHANGED <<fs, known, file_vars, tcount, input, forgotten, fs0, kf0,
                   named, status, twice, run, sources, aside>>

\* WriteFileException or OSError in _save: CatastrophicError, the session
\* ends; what was written of the temporary file stays.
SaveFails ==
    /\ pc \in {"save_open", "save_write", "save_rename"}
    /\ Dies("fatal")

\* ------------------------------------------------------- end of a session

\* After the last source: find_forgotten_files is reported, then
\* save_final up to its call of _save.
Finish ==
    /\ pc = "files"
    /\ Replaying => sources = << >>
    /\ forgotten' = find_forgotten_files
    /\ save_text' = save_final(new_known_files)
    /\ save_kind' = "final"
    /\ pc' = "save_open"
    /\ files_done' = 0
    /\ tcount' = 0
    /\ UNCHANGED <<disk, known, cur, target, verdict, input, hist, replay>>

\* The process is killed.
Crash ==
    /\ pc \notin Terminal
    /\ Dies("killed")

\* The same sources are processed again by a new process: KnownFiles is
\* loaded from the store file.
SecondSession ==
    /\ twice
    /\ run = 1
    /\ pc = "done"
    /\ run' = 2
    /\ old_known_files' = LoadKnownFiles(kf_file)
    /\ new_known_files' = EmptyMap
    /\ pc' = "files"
    /\ forgotten' = {}
    /\ last_save' = "none"
    /\ fs0' = fs
    /\ kf0' = kf_file
    /\ committed' = EmptyMap
    /\ named' = {}
    /\ status' = [p \in Paths |-> "none"]
    /\ UNCHANGED <<disk, file_vars, target_vars, save_text, save_kind, twice,
                   sources, after1, aside>>

\* What a session does when no I/O operation fails and nothing kills it.
Steps ==
    \/ StartHeaderFile
    \/ StartInlineFile
    \/ SplitNameError
    \/ TakeTarget
    \/ NoMoreTargets
    \/ AnswerYesNo
    \/ SkipTarget
    \/ ParserTypeError
    \/ Mkdir
    \/ CopyOpen
    \/ CopyWrite
    \/ UpdateKnownHash
    \/ SaveOpen
    \/ SaveWrite
    \/ SaveRename
    \/ Finish

\* I/O failures, the prompt that follows a LessCatastrophicError, a kill.
Failures ==
    \/ StartFileFails
    \/ AnswerContinueOrAbort
    \/ TakeTargetHashFails
    \/ MkdirFails
    \/ CopyOpenFails
    \/ CopyWriteFails
    \/ CopyInnerModeFails
    \/ CopymodeFails
    \/ UpdateKnownHashFails
    \/ SaveFails
    \/ Crash

Next == Steps \/ Failures

Spec == Init /\ [][Next]_vars

\* Two sessions in a row over the same sources and target lists, nothing
\* failing: the second starts from the files the first one left.  The
\* first starts with "/h/b" absent and not in the store.
InitTwice ==
    /\ InitCommon
    /\ twice = TRUE
    /\ fs["/h/b"] = Absent
    /\ "/h/b" \notin DOMAIN old_known_files

NextTwice == Steps \/ SecondSession

SpecTwice == InitTwice /\ [][NextTwice]_vars

\* ------------------------------------------------ run(), as it is written

\* What no specification but Spec and SpecTwice moves.
Fresh ==
    /\ tmp_file = Missing
    /\ old_known_files = EmptyMap
    /\ new_known_files = EmptyMap
    /\ files_done = 0
    /\ cur = NoSource
    /\ tcount = 0
    /\ target = "None"
    /\ verdict = "-"
    /\ input = "-"
    /\ save_text = {}
    /\ save_kind = "none"
    /\ forgotten = {}
    /\ last_save = "none"
    /\ fs0 = fs
    /\ kf0 = kf_file
    /\ committed = EmptyMap
    /\ named = {}
    /\ status = [p \in Paths |-> "none"]
    /\ twice = FALSE
    /\ run = 1
    /\ sources = << >>
    /\ after1 = [fs |-> fs, kf_file |-> kf_file, clean |-> FALSE]

\* main calls run(args): the configuration is loaded; the store file and
\* the targets are what earlier runs and the operator left.
InitRun ==
    /\ fs \in [Paths -> {Absent, Directory} \cup {RegularFile(c) : c \in Contents}]
    /\ kf_file \in {Missing, NotJson, NotObject, BadValue}
                      \cup {Whole(Dumps(m)) : m \in KnownMaps}
    /\ Fresh
    /\ pc = "start"
    /\ dry_run \in BOOLEAN
    /\ config_files \in 0 .. MaxFiles
    /\ raw_lines = << >>
    /\ local_vars = << >>
    /\ parser = None
    /\ rendered = None
    /\ NoBindings

\* KnownFiles(config.known_files): a missing file or a flat object of
\* strings.
RunKnownFiles ==
    /\ pc = "start"
    /\ kf_file.state \in {"missing", "whole"}
    /\ old_known_files' = LoadKnownFiles(kf_file)
    /\ pc' = "loop"
    /\ UNCHANGED <<disk, new_known_files, file_vars, target_vars, save_vars,
                   hist, replay>>

\* Variant: a store file that cannot be used is taken as an empty one.
RunKnownFilesLenient ==
    /\ pc = "start"
    /\ kf_file.state \in {"not_object", "bad_value"}
    /\ pc' = "loop"
    /\ UNCHANGED <<disk, known, file_vars, target_vars, save_vars, hist, replay>>

\* _read_known_files raises CatastrophicError: the root is no dict, or a
\* value is no str.  main's handler logs it.
RunKnownFilesFails ==
    /\ pc = "start"
    /\ kf_file.state \in {"not_object", "bad_value"}
    /\ Dies("fatal")

\* json.loads raises JSONDecodeError, which no handler catches.
RunKnownFilesNotJson ==
    /\ pc = "start"
    /\ kf_file.state = "not_json"
    /\ Dies("crashed")

\* The loop's first turn: processor.process_file(path, header,
\* dry_run=args.dry_run), a keyword process_file does not have: TypeError,
\* which is no LessCatastrophicError and no CatastrophicError.
RunProcessFile ==
    /\ pc = "loop"
    /\ config_files > 0
    /\ Dies("crashed")

\* No source file, "if args.dry_run: return".
RunDryReturn ==
    /\ pc = "loop"
    /\ config_files = 0
    /\ dry_run
    /\ pc' = "done"
    /\ UNCHANGED <<disk, known, file_vars, target_vars, save_vars, hist, replay>>

\* No source file, no dry run: find_forgotten_files is reported, then
\* save_final up to its call of _save.
RunFinish ==
    /\ pc = "loop"
    /\ config_files = 0
    /\ ~dry_run
    /\ forgotten' = find_forgotten_files
    /\ save_text' = save_final(new_known_files)
    /\ save_kind' = "final"
    /\ pc' = "save_open"
    /\ UNCHANGED <<disk, known, file_vars, target_vars, hist, replay>>

NextRun ==
    \/ RunKnownFiles
    \/ RunKnownFilesFails
    \/ RunKnownFilesNotJson
    \/ RunProcessFile
    \/ RunDryReturn
    \/ RunFinish
    \/ SaveOpen
    \/ SaveWrite
    \/ SaveRename
    \/ SaveFails
    \/ Crash

SpecRun == InitRun /\ [][NextRun]_vars

\* ------------------------------------------------------- parser.py, Parser

\* A line of text is the sequence of its characters.  The defaults of
\* statement_prefix and expression_delimiters:
statement_initiator == <<"#">>
expression_opening_delimiter == <<"{", "{">>
expression_closing_delimiter == <<"}", "}">>

\* The raw lines a template is made of here.
LinePool ==
    { <<"a">>,
      << >>,
      <<" ", "b", " ">>,
      <<"x", "{", "{", "p", "}", "}">>,
      <<"{", "{", "q">>,
      <<"#", " ", "i", "f", " ", "p">>,
      <<" ", "#", " ", "i", "f", " ", "q">>,
      <<"#", " ", "e", "l", "i", "f", " ", "q">>,
      <<"#", " ", "e", "l", "s", "e">>,
      <<"#", " ", "e", "n", "d">> }

\* What a name is bound to: a truthy value, a falsy one, or nothing, so that
\* evaluating it raises.
Values == {"True", "0", "raise"}

Names == {<<"p">>, <<"q">>}

\* str.strip
Strip(text) ==
    LET solid == {i \in 1 .. Len(text) : text[i] # " "} IN
    IF solid = {} THEN << >>
    ELSE SubSeq(text, CHOOSE i \in solid : \A j \in solid : i <= j,
                      CHOOSE i \in solid : \A j \in solid : i >= j)

\* str.startswith
StartsWith(text, start) ==
    Len(start) <= Len(text) /\ SubSeq(text, 1, Len(start)) = start

\* str.find(sub, i), positions counted from 1: 0 when sub does not occur
\* from position i on.
Find(text, sub, i) ==
    LET hits == {j \in i .. Len(text) - Len(sub) + 1 :
                    SubSeq(text, j, j + Len(sub) - 1) = sub} IN
    IF hits = {} THEN 0 ELSE CHOOSE j \in hits : \A k \in hits : j <= k

\* Line._parse_statement: the argument, or None.
_parse_statement(text, statement_name) ==
    LET start == statement_initiator \o <<" ">> \o statement_name
        stripped == Strip(text) IN
    IF StartsWith(stripped, start)
    THEN Strip(SubSeq(stripped, Len(start) + 1, Len(stripped)))
    ELSE None

\* Line._parse_statement_noarg
_parse_statement_noarg(text, statement_name) ==
    Strip(text) = statement_initiator \o <<" ">> \o statement_name

\* Variant: _parse_chunks that keeps a line's text without the blanks
\* around it.
_parse_chunks_stripped(text) ==
    [ok |-> TRUE, chunks |-> << <<Strip(text), FALSE>> >>]

\* ActualLine._parse_chunks, from position i on: (text, is_expression)
\* pairs, or no closing delimiter.
RECURSIVE ParseChunksFrom(_, _)
ParseChunksFrom(text, i) ==
    IF i > Len(text) THEN [ok |-> TRUE, chunks |-> << >>]
    ELSE
        LET od == Find(text, expression_opening_delimiter, i) IN
        IF od = 0
        THEN [ok |-> TRUE, chunks |-> << <<SubSeq(text, i, Len(text)), FALSE>> >>]
        ELSE
            LET od_end == od + Len(expression_opening_delimiter)
                cd == Find(text, expression_closing_delimiter, od_end) IN
            IF cd = 0 THEN [ok |-> FALSE, chunks |-> << >>]
            ELSE
                LET cd_end == cd + Len(expression_closing_delimiter)
                    more == ParseChunksFrom(text, cd_end) IN
                IF ~more.ok THEN more
                ELSE [ok |-> TRUE,
                      chunks |-> << <<SubSeq(text, i, od - 1), FALSE>>,
                                    <<SubSeq(text, od_end, cd - 1), TRUE>> >>
                                 \o more.chunks]

_parse_chunks(text) == ParseChunksFrom(text, 1)

\* Line.parse: the first of IfStatement, ElifStatement, ElseStatement,
\* EndStatement whose constructor does not raise, else ActualLine, whose
\* constructor raises ParseException.on_line when a delimiter is not closed.
\* line_number is the index enumerate gives, from 0.
Line_parse(text, line_number) ==
    LET line(kind, argument, chunks) ==
            [kind |-> kind, argument |-> argument, chunks |-> chunks,
             line_number |-> line_number] IN
    IF _parse_statement(text, <<"i", "f">>) # None
    THEN line("IfStatement", _parse_statement(text, <<"i", "f">>), << >>)
    ELSE IF _parse_statement(text, <<"e", "l", "i", "f">>) # None
    THEN line("ElifStatement", _parse_statement(text, <<"e", "l", "i", "f">>), << >>)
    ELSE IF _parse_statement_noarg(text, <<"e", "l", "s", "e">>)
    THEN line("ElseStatement", None, << >>)
    ELSE IF _parse_statement_noarg(text, <<"e", "n", "d">>)
    THEN line("EndStatement", None, << >>)
    ELSE IF _parse_chunks(text).ok
    THEN line("ActualLine", None, _parse_chunks(text).chunks)
    ELSE line("ParseException", None, << >>)

\* What Block.__init__ and IfBlock.__init__ end with: the elements built and
\* the lines left in the queue, or a ParseException, made by on_line (with a
\* line number) or without one.
Built(elements, rest) ==
    [exception |-> FALSE, on_line |-> FALSE, line_number |-> 0,
     elements |-> elements, rest |-> rest]

Raised(on_line, line_number) ==
    [exception |-> TRUE, on_line |-> on_line, line_number |-> line_number,
     elements |-> << >>, rest |-> << >>]

RECURSIVE Block(_), IfBlock(_), ElifSections(_)

\* Block.__init__: lines_queue's next line is its head.
Block(lines_queue) ==
    IF lines_queue = << >> THEN Built(<< >>, << >>)
    ELSE
        LET next_line == Head(lines_queue) IN
        IF next_line.kind = "ActualLine"
        THEN LET more == Block(Tail(lines_queue)) IN
             IF more.exception THEN more
             ELSE Built(<<next_line>> \o more.elements, more.rest)
        ELSE IF next_line.kind = "IfStatement"
        THEN LET first == IfBlock(lines_queue) IN
             IF first.exception THEN first
             ELSE LET more == Block(first.rest) IN
                  IF more.exception THEN more
                  ELSE Built(first.elements \o more.elements, more.rest)
        ELSE Built(<< >>, lines_queue)

\* Variant: the loop over ElifStatements taking an ElseStatement for one
\* more section of the loop.
ElifSectionsWithElse(lines_queue) ==
    IF lines_queue = << >> THEN Built(<< >>, << >>)
    ELSE IF Head(lines_queue).kind \notin {"ElifStatement", "ElseStatement"}
    THEN Built(<< >>, lines_queue)
    ELSE
        LET block == Block(Tail(lines_queue)) IN
        IF block.exception THEN block
        ELSE LET more == ElifSections(block.rest) IN
             IF more.exception THEN more
             ELSE Built(<<[block |-> block.elements,
                           condition |-> Head(lines_queue).argument]>>
                        \o more.elements, more.rest)

\* IfBlock.__init__, "while True": a section per ElifStatement.
ElifSections(lines_queue) ==
    IF lines_queue = << >> THEN Built(<< >>, << >>)
    ELSE IF Head(lines_queue).kind # "ElifStatement" THEN Built(<< >>, lines_queue)
    ELSE
        LET block == Block(Tail(lines_queue)) IN
        IF block.exception THEN block
        ELSE LET more == ElifSections(block.rest) IN
             IF more.exception THEN more
             ELSE Built(<<[block |-> block.elements,
                           condition |-> Head(lines_queue).argument]>>
                        \o more.elements, more.rest)

\* IfBlock.__init__: the sections, each a block and a condition (None for
\* else); the one element built is the if-block.
IfBlock(lines_queue) ==
    IF lines_queue = << >> THEN Raised(FALSE, 0)
    ELSE IF Head(lines_queue).kind # "IfStatement"
    THEN Raised(TRUE, Head(lines_queue).line_number)
    ELSE
        LET block == Block(Tail(lines_queue)) IN
        IF block.exception THEN block
        ELSE
        LET elifs == ElifSections(block.rest) IN
        IF elifs.exception THEN elifs
        ELSE
        LET has_else == elifs.rest # << >> /\ Head(elifs.rest).kind = "ElseStatement"
            else_block == IF has_else THEN Block(Tail(elifs.rest))
                          ELSE Built(<< >>, elifs.rest) IN
        IF else_block.exception THEN else_block
        ELSE IF else_block.rest = << >> THEN Raised(FALSE, 0)
        ELSE IF Head(else_block.rest).kind # "EndStatement"
        THEN Raised(TRUE, Head(else_block.rest).line_number)
        ELSE
            Built(<<[kind |-> "IfBlock",
                     sections |->
                         <<[block |-> block.elements,
                            condition |-> Head(lines_queue).argument]>>
                         \o elifs.elements
                         \o (IF has_else
                             THEN <<[block |-> else_block.elements,
                                     condition |-> None]>>
                             ELSE << >>)]>>,
                  Tail(else_block.rest))

\* Parser.__init__: every raw line through Line.parse, the first failure
\* raised; then the main block.  What the main block left in the queue is
\* not looked at.
Parser(lines) ==
    LET parsed == [i \in 1 .. Len(lines) |-> Line_parse(lines[i], i - 1)]
        bad == {i \in 1 .. Len(lines) : parsed[i].kind = "ParseException"} IN
    IF bad # {}
    THEN Raised(TRUE, (CHOOSE i \in bad : \A j \in bad : i <= j) - 1)
    ELSE Block(parsed)

\* safer_eval(code, local_vars): the value of a bound name; anything else
\* raises ExecuteException.
safer_eval(code, vars_) ==
    IF code \in DOMAIN vars_ /\ vars_[code] # "raise"
    THEN [exception |-> FALSE, value |-> vars_[code]]
    ELSE [exception |-> TRUE, value |-> "raise"]

\* bool(value)
Truthy(value) == value \notin {"0", "False", ""}

\* ActualLine.evaluate: the chunks joined, an expression chunk as the str of
\* its value (one character here).
RECURSIVE JoinChunks(_, _)
JoinChunks(chunks, vars_) ==
    IF chunks = << >> THEN [exception |-> FALSE, lines |-> << >>]
    ELSE
        LET chunk == Head(chunks)
            more == JoinChunks(Tail(chunks), vars_) IN
        IF ~chunk[2]
        THEN IF more.exception THEN more
             ELSE [exception |-> FALSE, lines |-> chunk[1] \o more.lines]
        ELSE IF safer_eval(chunk[1], vars_).exception
        THEN [exception |-> TRUE, lines |-> << >>]
        ELSE IF more.exception THEN more
        ELSE [exception |-> FALSE,
              lines |-> <<safer_eval(chunk[1], vars_).value>> \o more.lines]

RECURSIVE BlockEvaluate(_, _), IfBlockEvaluate(_, _)

\* Variant: IfBlock.evaluate that evaluates every condition before it
\* selects a section.
IfBlockEvaluateEager(sections, vars_) ==
    LET holds == {k \in 1 .. Len(sections) :
                     \/ sections[k].condition = None
                     \/ /\ ~safer_eval(sections[k].condition, vars_).exception
                        /\ Truthy(safer_eval(sections[k].condition, vars_).value)} IN
    IF \E k \in 1 .. Len(sections) :
           /\ sections[k].condition # None
           /\ safer_eval(sections[k].condition, vars_).exception
    THEN [exception |-> TRUE, lines |-> << >>]
    ELSE IF holds = {} THEN [exception |-> FALSE, lines |-> << >>]
    ELSE BlockEvaluate(sections[CHOOSE k \in holds : \A j \in holds : k <= j].block,
                       vars_)

\* Variant: IfBlock.evaluate that renders the last section whose condition
\* is absent or truthy.
IfBlockEvaluateLast(sections, vars_) ==
    LET holds == {k \in 1 .. Len(sections) :
                     \/ sections[k].condition = None
                     \/ /\ ~safer_eval(sections[k].condition, vars_).exception
                        /\ Truthy(safer_eval(sections[k].condition, vars_).value)} IN
    IF holds = {} THEN [exception |-> FALSE, lines |-> << >>]
    ELSE BlockEvaluate(sections[CHOOSE k \in holds : \A j \in holds : j <= k].block,
                       vars_)

\* Variant: Block.evaluate that leaves out an element whose evaluation
\* raises and goes on with the next.
BlockEvaluateLenient(elements, vars_) ==
    IF elements = << >> THEN [exception |-> FALSE, lines |-> << >>]
    ELSE
        LET element == Head(elements)
            first == IF element.kind = "ActualLine"
                     THEN LET line == JoinChunks(element.chunks, vars_) IN
                          [exception |-> line.exception, lines |-> <<line.lines>>]
                     ELSE IfBlockEvaluate(element.sections, vars_)
            more == BlockEvaluate(Tail(elements), vars_) IN
        IF first.exception THEN more
        ELSE IF more.exception THEN more
        ELSE [exception |-> FALSE, lines |-> first.lines \o more.lines]

\* Block.evaluate: the lines its elements give, in order; the first
\* ExecuteException ends it.
BlockEvaluate(elements, vars_) ==
    IF elements = << >> THEN [exception |-> FALSE, lines |-> << >>]
    ELSE
        LET element == Head(elements)
            first == IF element.kind = "ActualLine"
                     THEN LET line == JoinChunks(element.chunks, vars_) IN
                          [exception |-> line.exception, lines |-> <<line.lines>>]
                     ELSE IfBlockEvaluate(element.sections, vars_) IN
        IF first.exception THEN [exception |-> TRUE, lines |-> << >>]
        ELSE LET more == BlockEvaluate(Tail(elements), vars_) IN
             IF more.exception THEN more
             ELSE [exception |-> FALSE, lines |-> first.lines \o more.lines]

\* IfBlock.evaluate: the block of the first section whose condition is None
\* or evaluates truthy.
IfBlockEvaluate(sections, vars_) ==
    IF sections = << >> THEN [exception |-> FALSE, lines |-> << >>]
    ELSE
        LET entry == Head(sections) IN
        IF entry.condition = None THEN BlockEvaluate(entry.block, vars_)
        ELSE IF safer_eval(entry.condition, vars_).exception
        THEN [exception |-> TRUE, lines |-> << >>]
        ELSE IF Truthy(safer_eval(entry.condition, vars_).value)
        THEN BlockEvaluate(entry.block, vars_)
        ELSE IfBlockEvaluate(Tail(sections), vars_)

\* "".join(f"{line}\n" for line in lines)
RECURSIVE JoinLines(_)
JoinLines(lines) ==
    IF lines = << >> THEN << >>
    ELSE Head(lines) \o <<"\n">> \o JoinLines(Tail(lines))

\* Parser.evaluate: the text, or the ExecuteException.
ParserEvaluate(main_block, vars_) ==
    LET result == BlockEvaluate(main_block, vars_) IN
    [exception |-> result.exception,
     text |-> IF result.exception THEN << >> ELSE JoinLines(result.lines)]

\* A template and the bindings it is rendered with; nothing else exists.
InitParser ==
    /\ fs = [p \in Paths |-> Absent]
    /\ kf_file = Missing
    /\ Fresh
    /\ pc = "raw"
    /\ dry_run = FALSE
    /\ config_files = 0
    /\ raw_lines \in UNION {[1 .. n -> LinePool] : n \in 0 .. MaxLines}
    /\ local_vars \in [Names -> Values]
    /\ parser = None
    /\ rendered = None
    /\ NoBindings

pipeline == <<disk, known, file_vars, target_vars, save_vars, hist, twice, run,
              sources, after1, dry_run, config_files, bindings>>

\* Parser(raw_lines, ..)
ParserConstruct ==
    /\ pc = "raw"
    /\ parser' = Parser(raw_lines)
    /\ pc' = IF parser'.exception THEN "parse_error" ELSE "parsed"
    /\ UNCHANGED <<pipeline, raw_lines, local_vars, rendered>>

\* parser.evaluate(local_vars)
ParserEvaluateText ==
    /\ pc = "parsed"
    /\ rendered' = ParserEvaluate(parser.elements, local_vars)
    /\ pc' = IF rendered'.exception THEN "execute_error" ELSE "rendered"
    /\ UNCHANGED <<pipeline, raw_lines, local_vars, parser>>

NextParser == ParserConstruct \/ ParserEvaluateText

SpecParser == InitParser /\ [][NextParser]_vars

\* --------------------------------------- process_file and the bindings

\* Statements of a header script.
MaxStatements == 2

\* The names looked at here; "os" stands for a module the configuration
\* file imported.
VarNames == {"filename", "target", "targets", "binary", "os"}

\* A dictionary of bindings maps a name to the object it is bound to; an
\* object is known by who made it: the base configuration, process_file's
\* copy, or _process_parseable's copy.
Layers == {"base", "file", "target"}

Ids == Layers \X VarNames

NoObject == <<"none", "none">>

Plain(value) == [module |-> FALSE, value |-> value]

Module(value) == [module |-> TRUE, value |-> value]

Blank == Plain("-")

NoConfig == [n \in VarNames |-> NoObject]

\* DEFAULT_CONFIG's values and what the configuration file added: "binary"
\* is True, "targets" is [], "filename" and "target" have no value; the
\* configuration file imported a module, or not.
BaseObjects(imported) ==
    [id \in Ids |->
        IF id = <<"base", "targets">> THEN Plain("[]")
        ELSE IF id = <<"base", "binary">> THEN Plain("True")
        ELSE IF id = <<"base", "os">> /\ imported THEN Module("m0")
        ELSE Blank]

BaseBindings(imported) ==
    [n \in VarNames |->
        IF n \in {"targets", "binary"} \/ (n = "os" /\ imported)
        THEN <<"base", n>> ELSE NoObject]

\* Variant: copy_local_variables as dict(local), the values shared.
copy_local_variables_shallow(local, objs, layer) ==
    [local_vars |-> local, objects |-> objs]

\* copy_local_variables: a new dictionary; a module is kept as it is, any
\* other value is a new object, equal to the old one (copy.deepcopy).
copy_local_variables(local, objs, layer) ==
    [local_vars |->
        [n \in VarNames |->
            IF local[n] = NoObject THEN NoObject
            ELSE IF objs[local[n]].module THEN local[n]
            ELSE <<layer, n>>],
     objects |->
        [id \in Ids |->
            IF id[1] = layer /\ local[id[2]] # NoObject /\ ~objs[local[id[2]]].module
            THEN objs[local[id[2]]]
            ELSE objs[id]]]

\* Config._set: the name is bound to a new object.
_set(c, name, value, layer) ==
    [local_vars |-> [c.local_vars EXCEPT ![name] = <<layer, name>>],
     objects |-> [c.objects EXCEPT ![<<layer, name>>] = Plain(value)]]

\* The statements a header script is made of: an assignment to a name, a
\* change inside the list "targets" is bound to, a change inside the module
\* "os" is bound to, a statement that raises.
Statements ==
    {[op |-> "assign", name |-> "filename", value |-> "h"],
     [op |-> "assign", name |-> "target", value |-> "h"],
     [op |-> "assign", name |-> "binary", value |-> "False"],
     [op |-> "append", name |-> "targets", value |-> "[x]"],
     [op |-> "setattr", name |-> "os", value |-> "m1"],
     [op |-> "raise", name |-> "-", value |-> "-"]}

Scripts == UNION {[1 .. n -> Statements] : n \in 0 .. MaxStatements}

\* exec of one statement with the dictionary as its locals.
Exec(st, c) ==
    IF st.op = "assign"
    THEN [exception |-> FALSE] @@ _set(c, st.name, st.value, "file")
    ELSE IF st.op = "raise" \/ c.local_vars[st.name] = NoObject
    THEN [exception |-> TRUE] @@ c
    ELSE [exception |-> FALSE, local_vars |-> c.local_vars,
          objects |-> [c.objects EXCEPT ![c.local_vars[st.name]].value = st.value]]

\* safer_exec(code, local_vars): the statements in order; what the ones
\* before a failing statement did stays done.
RECURSIVE safer_exec(_, _)
safer_exec(code, c) ==
    IF code = << >>
    THEN [exception |-> FALSE, local_vars |-> c.local_vars, objects |-> c.objects]
    ELSE LET first == Exec(Head(code), c) IN
         IF first.exception THEN first
         ELSE safer_exec(Tail(code),
                         [local_vars |-> first.local_vars, objects |-> first.objects])

\* The lines an inline source is made of.
TextPool ==
    { <<"=", "=", "=">>,
      <<"=", "=">>,
      <<"=", "=", "=", "=">>,
      <<"=", "=", "=", " ">>,
      <<"a">> }

Texts == UNION {[1 .. n -> TextPool] : n \in 0 .. MaxLines}

\* split_header_and_rest's loop over the lines of text.splitlines().
RECURSIVE SplitLoop(_, _, _, _)
SplitLoop(lines, in_header, header, rest) ==
    IF lines = << >> THEN <<header, rest>>
    ELSE LET line == Head(lines) IN
         IF ~in_header
         THEN SplitLoop(Tail(lines), in_header, header, Append(rest, line))
         ELSE IF Len(line) >= 3 /\ \A i \in 1 .. Len(line) : line[i] = "="
         THEN SplitLoop(Tail(lines), FALSE, header, rest)
         ELSE SplitLoop(Tail(lines), in_header, Append(header, line), rest)

split_header_and_rest(lines) == SplitLoop(lines, TRUE, << >>, << >>)

\* path.name of the source a session processes next.
Filename(done) == IF done = 0 THEN "f1" ELSE "f2"

\* What is left of the objects when a dictionary is dropped.
Collect(objs) == [id \in Ids |-> IF id[1] = "base" THEN objs[id] ELSE Blank]

\* A session's Processor, with the base configuration it was given.
InitFile ==
    /\ fs = [p \in Paths |-> Absent]
    /\ kf_file = Missing
    /\ Fresh
    /\ pc = "files"
    /\ dry_run = FALSE
    /\ config_files = 0
    /\ raw_lines = << >>
    /\ local_vars = << >>
    /\ parser = None
    /\ rendered = None
    /\ \E imported \in BOOLEAN :
           /\ objects = BaseObjects(imported)
           /\ self_config = BaseBindings(imported)
    /\ config = NoConfig
    /\ config_copy = NoConfig
    /\ source_text = << >>
    /\ script = << >>

rest_of_file == <<disk, known, verdict, input, save_vars, hist, twice, run,
                  sources, after1, dry_run, config_files, raw_lines, local_vars,
                  parser, rendered, self_config>>

\* process_file: config = self.config.copy(); config.filename = path.name.
process_file(done) ==
    _set(copy_local_variables(self_config, objects, "file"),
         "filename", Filename(done), "file")

\* process_file with a header file, up to the header file being read.
FileWithHeader ==
    \E code \in Scripts :
        /\ pc = "files"
        /\ files_done < MaxFiles
        /\ config' = process_file(files_done).local_vars
        /\ objects' = process_file(files_done).objects
        /\ script' = code
        /\ files_done' = files_done + 1
        /\ pc' = "header"
        /\ UNCHANGED <<rest_of_file, cur, tcount, target, config_copy, source_text>>

\* safer_exec(header_text, config.local_vars); what it raises becomes a
\* LessCatastrophicError; then config.binary is read.
FileExecHeader ==
    LET done == safer_exec(script, [local_vars |-> config, objects |-> objects]) IN
    /\ pc = "header"
    /\ IF done.exception
       THEN /\ pc' = "lce"
            /\ config' = NoConfig
            /\ objects' = Collect(done.objects)
            /\ script' = << >>
            /\ cur' = cur
       ELSE /\ pc' = "targets"
            /\ config' = done.local_vars
            /\ objects' = done.objects
            /\ script' = script
            /\ cur' = [header |-> TRUE,
                       binary |-> done.objects[done.local_vars["binary"]].value = "True",
                       content |-> 1]
    /\ UNCHANGED <<rest_of_file, files_done, tcount, target, config_copy,
                   source_text>>

\* process_file without a header file, up to the source being read.
FileWithoutHeader ==
    \E lines \in Texts :
        /\ pc = "files"
        /\ files_done < MaxFiles
        /\ config' = process_file(files_done).local_vars
        /\ objects' = process_file(files_done).objects
        /\ source_text' = lines
        /\ cur' = [header |-> FALSE, binary |-> TRUE, content |-> 1]
        /\ files_done' = files_done + 1
        /\ pc' = "split"
        /\ UNCHANGED <<rest_of_file, tcount, target, config_copy, script>>

\* An exception nobody catches: the dictionaries are gone with the process.
FileDies ==
    /\ pc' = "crashed"
    /\ config' = NoConfig
    /\ config_copy' = NoConfig
    /\ objects' = Collect(objects)
    /\ source_text' = << >>
    /\ script' = << >>
    /\ cur' = NoSource
    /\ files_done' = 0
    /\ tcount' = 0
    /\ target' = "None"
    /\ UNCHANGED rest_of_file

\* split_header_and_rest(text): NameError, see SplitNameError.
FileSplitNameError ==
    /\ pc = "split"
    /\ FileDies

\* One turn of _process_binary's loop: the bindings are not touched.
FileBinaryTurn ==
    /\ pc = "targets"
    /\ cur.binary
    /\ tcount < MaxTargets
    /\ tcount' = tcount + 1
    /\ UNCHANGED <<rest_of_file, pc, files_done, cur, target, bindings>>

\* One turn of _process_parseable's loop up to the Parser call: the target
\* is skipped by _justify_target, or config_copy = config.copy() and
\* config_copy.target = target.
FileTemplateTurn ==
    \E t \in TargetNames, justified \in BOOLEAN :
        LET copy == _set(copy_local_variables(config, objects, "target"),
                         "target", t, "target") IN
        /\ pc = "targets"
        /\ ~cur.binary
        /\ tcount < MaxTargets
        /\ tcount' = tcount + 1
        /\ IF justified
           THEN /\ config_copy' = copy.local_vars
                /\ objects' = copy.objects
                /\ target' = t
                /\ pc' = "bound"
           ELSE UNCHANGED <<config_copy, objects, target, pc>>
        /\ UNCHANGED <<rest_of_file, files_done, cur, config, source_text, script>>

\* Parser(lines, statement_prefix=..): TypeError, see ParserTypeError.
FileParserTypeError ==
    /\ pc = "bound"
    /\ FileDies

\* The target list is exhausted: process_file returns and its dictionary is
\* dropped.
FileReturns ==
    /\ pc = "targets"
    /\ pc' = "files"
    /\ config' = NoConfig
    /\ objects' = Collect(objects)
    /\ script' = << >>
    /\ cur' = NoSource
    /\ UNCHANGED <<rest_of_file, files_done, tcount, target, config_copy,
                   source_text>>

\* No source is left.
FileFinish ==
    /\ pc = "files"
    /\ pc' = "done"
    /\ UNCHANGED <<rest_of_file, files_done, cur, tcount, target, bindings>>

NextFile ==
    \/ FileWithHeader
    \/ FileExecHeader
    \/ FileWithoutHeader
    \/ FileSplitNameError
    \/ FileBinaryTurn
    \/ FileTemplateTurn
    \/ FileParserTypeError
    \/ FileReturns
    \/ FileFinish
    \/ AnswerContinueOrAbort

SpecFile == InitFile /\ [][NextFile]_vars

\* ------------------------------------------------------------ properties

\* The hashes a store file gives for a path.
Entries(file, p) == {kv[2] : kv \in {x \in file.doc : _normalize_path(x[1]) = p}}

Sha256(c) == <<"sha256", c>>

\* A path the store recorded before the session and whose file was changed
\* since: a regular file whose hash is not the recorded one.
Changed(p) ==
    /\ fs0[p].kind = "file"
    /\ Entries(kf0, p) # {}
    /\ Sha256(fs0[p].content) \notin Entries(kf0, p)

Saving == {"save_open", "save_write", "save_rename"}

\* C1: when _justify_target lets a target through without the operator
\* having typed "y", the target does not exist or is a regular file whose
\* hash is the one the store returns for it; when the checks ended in a
\* prompt (hash failure, no recorded hash, different hash) the target gets
\* through only on "y", and an empty line skips it.
C1_JustifiedOnlyWhenSafeOrConfirmed ==
    /\ pc = "justified" /\ input # "y" =>
         \/ FileAt(target).kind = "absent"
         \/ /\ FileAt(target).kind = "file"
            /\ get_hash(target) = Sha256(FileAt(target).content)
    /\ pc = "justified" /\ verdict = "ask" => input = "y"
    /\ pc = "skipping" /\ verdict = "ask" => input \in {"", "n"}
    /\ pc = "prompt" => verdict = "ask" /\ FileAt(target).kind = "file"

C1_Witness ==
    /\ pc = "justified"
    /\ verdict = "ask"
    /\ input = "y"
    /\ get_hash(target) \notin {None, Sha256(FileAt(target).content)}

C3_Original ==
    \A p \in Paths :
        pc = "done" /\ Changed(p) /\ status[p] = "declined" =>
            Entries(kf_file, p) = Entries(kf0, p)

\* C3, amended: a changed target gets past _justify_target only on "y";
\* when every prompt for it was declined its content is the one the session
\* found, the store file keeps its entry through the incremental saves, and
\* save_final removes the entry.
C3_ChangedTargetAskedAndForgottenOnDecline ==
    \A p \in Paths :
        /\ /\ pc = "justified"
           /\ _normalize_path(target) = p
           /\ Changed(p)
           /\ fs[p] = fs0[p]
           => input = "y"
        /\ Changed(p) /\ status[p] = "declined" =>
             /\ fs[p] = fs0[p]
             /\ last_save # "final" => Entries(kf_file, p) = Entries(kf0, p)
             /\ pc = "done" => Entries(kf_file, p) = {}

C3_Witness ==
    \E p \in Paths :
        /\ pc = "done"
        /\ Changed(p)
        /\ status[p] = "declined"
        /\ fs[p] = fs0[p]
        /\ Entries(kf_file, p) = {}

\* C4: once a path is in the new generation, no step of the session changes
\* the file at that path and no prompt is opened for it.
C4_RecordedTargetNotWrittenAgain ==
    [][\A p \in DOMAIN new_known_files :
          /\ fs'[p] = fs[p]
          /\ ~(pc' = "prompt" /\ _normalize_path(target') = p)]_vars

C4_Witness ==
    /\ pc = "skipping"
    /\ verdict = "refuse"
    /\ input = "-"
    /\ FileAt(target).kind = "file"
    /\ was_recently_modified(target)
    /\ FileAt(target).content # cur.content

\* C5: from the moment _update_known_hash has returned for a target, in
\* every later state of the session, its end by a kill, an abort or a fatal
\* error included, the store file is complete and maps the path to the hash
\* of the content the target holds, the content written for it.
C5_CommittedTargetsStayInStore ==
    \A p \in DOMAIN committed :
        /\ kf_file.state = "whole"
        /\ fs[p].kind = "file"
        /\ fs[p].content # Partial
        /\ Entries(kf_file, p) = {Sha256(fs[p].content)}

C5_Witness ==
    /\ pc \in {"crashed", "killed", "aborted", "fatal"}
    /\ \E p \in DOMAIN committed : \E q \in Paths : fs[q] = RegularFile(Partial)

\* C6: a step changes the store file only by the rename, and then to the
\* complete text handed to _save; at every other step, a failure or a kill
\* between the write of the temporary file and the rename included, it is
\* the complete file it was.
C6_StoreFileOldOrNew ==
    [][\/ kf_file' = kf_file
       \/ /\ pc = "save_rename"
          /\ kf_file' = Whole(save_text)]_vars

C6_Witness ==
    /\ pc \in {"killed", "fatal"}
    /\ tmp_file.state = "whole"
    /\ tmp_file # kf_file
    /\ kf_file = kf0

\* C7 as stated: when the session is not inside the write of a target, no
\* target holds truncated or partial content.
C7_Original ==
    pc # "copy_write" => \A p \in Paths : fs[p] # RegularFile(Partial)

\* C7, amended: a failed or interrupted write can leave the target truncated
\* or partial; such a target is in neither the new generation nor the
\* committed ones, and the store file says about it what it said when the
\* session started.
C7_PartialTargetNeverRecorded ==
    \A p \in Paths :
        fs[p] = RegularFile(Partial) =>
            /\ p \notin DOMAIN new_known_files
            /\ p \notin DOMAIN committed
            /\ kf_file.state # "whole" \/ Entries(kf_file, p) \subseteq Entries(kf0, p)

C7_Witness ==
    \E p \in Paths :
        /\ fs[p] = RegularFile(Partial)
        /\ fs0[p].kind = "file"
        /\ pc \in {"targets", "killed"}

\* C8: at the end of a session, a path the store held at its start and that
\* no target list named is in what find_forgotten_files returned and has no
\* entry in the store file.
C8_UnnamedPathForgotten ==
    pc = "done" =>
        \A p \in Paths :
            Entries(kf0, p) # {} /\ p \notin named =>
                /\ p \in forgotten
                /\ Entries(kf_file, p) = {}

C8_Witness ==
    /\ pc = "done"
    /\ new_known_files # EmptyMap
    /\ \E p \in Paths : Entries(kf0, p) # {} /\ p \notin named /\ p \in forgotten

\* C9: after an incremental save, and until the next save starts, the store
\* file holds exactly the paths of the old and the new generation, a path of
\* the new generation with its new hash and any other with its old one; and
\* as long as no final save completed, every path the store file held at
\* the start of the session is still in it.
C9_IncrementalSaveIsUnion ==
    /\ last_save = "incremental" /\ pc \notin Saving \cup Terminal =>
         /\ kf_file.state = "whole"
         /\ {kv[1] : kv \in kf_file.doc} =
                DOMAIN old_known_files \cup DOMAIN new_known_files
         /\ \A p \in DOMAIN new_known_files :
                Entries(kf_file, p) = {new_known_files[p]}
         /\ \A p \in DOMAIN old_known_files \ DOMAIN new_known_files :
                Entries(kf_file, p) = {old_known_files[p]}
    /\ last_save # "final" => {kv[1] : kv \in kf0.doc} \subseteq {kv[1] : kv \in kf_file.doc}

C9_Witness ==
    /\ last_save = "incremental"
    /\ pc = "targets"
    /\ DOMAIN old_known_files \ DOMAIN new_known_files # {}
    /\ \E p \in DOMAIN old_known_files \cap DOMAIN new_known_files :
           old_known_files[p] # new_known_files[p]

\* C10: when save_final has returned, the store file holds every path of
\* the new generation with its new hash and nothing else, so no path that
\* only the old generation had.
C10_FinalSaveIsNewGeneration ==
    pc = "done" =>
        /\ kf_file.state = "whole"
        /\ kf_file.doc = {<<p, new_known_files[p]>> : p \in DOMAIN new_known_files}
        /\ \A p \in DOMAIN old_known_files \ DOMAIN new_known_files :
               Entries(kf_file, p) = {}

C10_Witness ==
    /\ pc = "done"
    /\ last_save = "final"
    /\ new_known_files # EmptyMap
    /\ DOMAIN old_known_files \ DOMAIN new_known_files # {}

Dead == {"aborted", "fatal", "crashed", "killed"}

\* C11: when the final save starts, and when it has returned, what
\* find_forgotten_files returned is the set of the old generation's paths
\* that are not in the new one; and while the final save has not renamed,
\* the store file still has each of them with its old hash.
C11_ForgottenBeforeFinalSave ==
    /\ (pc \in Saving /\ save_kind = "final") \/ pc = "done" =>
         forgotten = {p \in DOMAIN old_known_files : p \notin DOMAIN new_known_files}
    /\ pc \in Saving /\ save_kind = "final" =>
         \A p \in forgotten : Entries(kf_file, p) = {old_known_files[p]}

C11_Witness ==
    /\ pc = "save_open"
    /\ save_kind = "final"
    /\ forgotten # {}
    /\ forgotten # DOMAIN old_known_files
    /\ new_known_files # EmptyMap

\* C12: as long as the process lives, the old generation is the map loaded
\* from the store file the session found, whatever was updated, looked up
\* or saved since.
C12_OldGenerationNeverChanges ==
    pc \notin Dead => old_known_files = LoadKnownFiles(kf0)

C12_Witness ==
    /\ pc = "done"
    /\ \E p \in DOMAIN old_known_files \cap DOMAIN new_known_files :
           old_known_files[p] # new_known_files[p]

\* C13: every key of both generations is a resolved path; update, lookup
\* and was_recently_modified give the same through the link as through the
\* path it points to; and the store file the session wrote has resolved
\* keys only, so no two keys for one file.
C13_KeysAreNormalized ==
    /\ \A p \in DOMAIN old_known_files \cup DOMAIN new_known_files : p \in Paths
    /\ \A t1, t2 \in TargetNames :
         _normalize_path(t1) = _normalize_path(t2) =>
             /\ get_hash(t1) = get_hash(t2)
             /\ was_recently_modified(t1) = was_recently_modified(t2)
             /\ update_file(t1, Sha256(1)) = update_file(t2, Sha256(1))
    /\ last_save # "none" => \A kv \in kf_file.doc : kv[1] \in Paths
    /\ \A kv1, kv2 \in kf_file.doc :
         _normalize_path(kv1[1]) = _normalize_path(kv2[1]) => kv1 = kv2

C13_Witness ==
    /\ pc = "save_rename"
    /\ save_kind = "incremental"
    /\ target = "/h/l"
    /\ "/h/a" \in DOMAIN old_known_files
    /\ new_known_files["/h/a"] # old_known_files["/h/a"]

\* C14: a missing store file gives two empty generations and the run goes
\* on to its loop: with a missing store file the run is never ended by the
\* load, an uncaught exception comes only from processing a source file and
\* a fatal end only from the final save.  A store file whose root is no
\* object, or that has a value that is no string, ends the run in main's
\* handler before any source file: no target and no store file differs from
\* what the run found.
C14_MalformedStoreIsFatal ==
    /\ kf0 = Missing /\ pc = "loop" =>
         old_known_files = EmptyMap /\ new_known_files = EmptyMap
    /\ kf0 = Missing /\ pc = "crashed" => config_files > 0
    /\ kf0 = Missing /\ pc = "fatal" => config_files = 0 /\ ~dry_run
    /\ kf0.state \in {"not_object", "bad_value"} =>
         /\ pc \in {"start", "fatal", "killed"}
         /\ fs = fs0
         /\ kf_file = kf0
         /\ tmp_file = Missing

\* C14's case: a run over a store file with a non-string value, with source
\* files to process and files on disk, ended in main's handler.
C14_Witness ==
    /\ pc = "fatal"
    /\ kf0 = BadValue
    /\ config_files > 0
    /\ \E p \in Paths : fs[p].kind = "file"

\* C18 as stated: a source whose "binary" binding is true never enters the
\* template path, one whose binding is false never enters the copy path,
\* with or without a header file.
C18_Original ==
    /\ cur.binary => pc # "split"
    /\ ~cur.binary => pc \notin {"copy_open", "copy_write", "copied"}

\* C18, amended: "binary" decides for a source with a header file only:
\* true copies the source's bytes to the target as they are, false never
\* copies; a source without a header file takes the template path whatever
\* "binary" is.
C18_BinaryDecidesWithHeaderFile ==
    /\ pc \in {"copy_open", "copy_write", "copied"} => cur.header /\ cur.binary
    /\ pc = "copied" => FileAt(target) = RegularFile(cur.content)
    /\ pc = "split" => ~cur.header
    /\ ~cur.header => pc \in {"split"}

C18_Witness ==
    /\ pc = "copied"
    /\ cur.header
    /\ cur.binary
    /\ FileAt(target) = RegularFile(cur.content)
    /\ fs0[_normalize_path(target)] # FileAt(target)

\* C19 as stated, for parsing: a templated target that got past
\* _justify_target is rendered or skipped, and the loop goes on; its parse
\* step never ends the session with an exception nobody catches.
C19_Original ==
    [][pc = "justified" /\ ~cur.binary => pc' # "crashed"]_vars

\* C20 as stated: a source file at its turn in run's loop is processed or
\* fails with an error the operator decides about; its turn never ends the
\* run with an exception nobody catches.
C20_Original ==
    [][pc = "loop" /\ config_files > 0 => pc' # "crashed"]_vars

\* str.splitlines
RECURSIVE SplitLines(_)
SplitLines(text) ==
    IF text = << >> THEN << >>
    ELSE LET nl == Find(text, <<"\n">>, 1) IN
         IF nl = 0 THEN <<text>>
         ELSE <<SubSeq(text, 1, nl - 1)>> \o SplitLines(SubSeq(text, nl + 1, Len(text)))

\* The kind Line.parse gives each raw line.
Kinds == [i \in 1 .. Len(raw_lines) |-> Line_parse(raw_lines[i], i - 1).kind]

Constructed == pc \in {"parsed", "parse_error", "rendered", "execute_error"}

\* C15, as the specification states it: in a template whose lines each parse,
\* an elif with no if open before it makes construction fail with a parse
\* error that carries that line's number (counted from 0 or from 1), and an
\* if in a template with no end at all makes construction fail with a parse
\* error that carries a line number.  The code stops silently at the elif and
\* drops the rest, and reports the unmatched if without any line number.
C15_Original ==
    Constructed /\ (\A i \in DOMAIN Kinds : Kinds[i] # "ParseException") =>
        /\ \A i \in DOMAIN Kinds :
               Kinds[i] = "ElifStatement" /\ (\A j \in 1 .. i - 1 : Kinds[j] = "ActualLine")
                   => /\ parser.exception
                      /\ parser.on_line
                      /\ parser.line_number \in {i - 1, i}
        /\ (\E i \in DOMAIN Kinds : Kinds[i] = "IfStatement")
             /\ (\A i \in DOMAIN Kinds : Kinds[i] # "EndStatement")
               => parser.exception /\ parser.on_line

\* A section's condition is absent or evaluates truthy.
Holds(section) ==
    \/ section.condition = None
    \/ /\ ~safer_eval(section.condition, local_vars).exception
       /\ Truthy(safer_eval(section.condition, local_vars).value)

\* A section's condition evaluates falsy.
Fails(section) ==
    /\ section.condition # None
    /\ ~safer_eval(section.condition, local_vars).exception
    /\ ~Truthy(safer_eval(section.condition, local_vars).value)

\* C16: an if-block of a constructed template keeps its sections in the
\* order if, elifs, else (only the last may lack a condition); evaluating it
\* gives exactly what the block of the first section gives whose condition is
\* absent or truthy, all earlier conditions being falsy; with every condition
\* falsy and no else it gives no line and no error; and a template that is
\* one if-block renders to exactly those lines.
C16_FirstTruthySectionRenders ==
    pc \in {"parsed", "rendered", "execute_error"} =>
        \A i \in 1 .. Len(parser.elements) :
            parser.elements[i].kind = "IfBlock" =>
                LET sections == parser.elements[i].sections
                    out == IfBlockEvaluate(sections, local_vars) IN
                /\ \A k \in 1 .. Len(sections) - 1 : sections[k].condition # None
                /\ \A k \in 1 .. Len(sections) :
                       Holds(sections[k]) /\ (\A j \in 1 .. k - 1 : Fails(sections[j]))
                           => out = BlockEvaluate(sections[k].block, local_vars)
                /\ (\A k \in 1 .. Len(sections) : Fails(sections[k]))
                       => out = [exception |-> FALSE, lines |-> << >>]
                /\ pc = "rendered" /\ Len(parser.elements) = 1
                       => rendered.text = JoinLines(out.lines)

\* C16's case: a rendered template that is one if-block whose if condition is
\* falsy and whose second section is the one rendered, with a line in it.
C16_Witness ==
    /\ pc = "rendered"
    /\ Len(parser.elements) = 1
    /\ parser.elements[1].kind = "IfBlock"
    /\ Len(parser.elements[1].sections) >= 2
    /\ Fails(parser.elements[1].sections[1])
    /\ Holds(parser.elements[1].sections[2])
    /\ rendered.text # << >>

\* A line that is no control statement and holds no expression delimiter.
PlainLine(text) ==
    /\ Line_parse(text, 0).kind = "ActualLine"
    /\ Find(text, expression_opening_delimiter, 1) = 0
    /\ Find(text, expression_closing_delimiter, 1) = 0

\* C17: a template made only of lines that are no control statements and
\* hold no expression delimiter, empty lines among them, is constructed and
\* evaluated without error, and the rendered text splits into the very same
\* lines.
C17_PlainBodyRendersUnchanged ==
    (\A i \in 1 .. Len(raw_lines) : PlainLine(raw_lines[i])) =>
        /\ pc \notin {"parse_error", "execute_error"}
        /\ pc = "rendered" => SplitLines(rendered.text) = raw_lines

\* C17's case: a rendered template of plain lines with an empty line and a
\* line with blanks around its text.
C17_Witness ==
    /\ pc = "rendered"
    /\ Len(raw_lines) >= 3
    /\ \A i \in 1 .. Len(raw_lines) : PlainLine(raw_lines[i])
    /\ \E i \in 1 .. Len(raw_lines) : raw_lines[i] = << >>
    /\ \E i \in 1 .. Len(raw_lines) : raw_lines[i] = <<" ", "b", " ">>

\* C23: a target that exists and is no regular file never comes to a prompt
\* and never gets past _justify_target; it is refused, and the refusal's
\* step leaves every file, the store file and both generations as they are
\* and returns to the target loop; a path that is a directory stays one and
\* is never recorded in the new generation.
C23_NonFileTargetRefused ==
    [][/\ pc' \in {"prompt", "justified", "skipping"} /\ pc \in {"targets"} =>
            (fs[_normalize_path(target')].kind = "dir"
                => pc' = "skipping" /\ verdict' = "refuse" /\ input' = "-")
       /\ pc = "skipping" /\ pc' # "killed" =>
            /\ pc' = "targets"
            /\ fs' = fs
            /\ kf_file' = kf_file
            /\ old_known_files' = old_known_files
            /\ new_known_files' = new_known_files
       /\ \A p \in Paths :
            fs[p].kind = "dir" => fs'[p] = fs[p] /\ p \notin DOMAIN new_known_files'
      ]_vars

\* C23's case: a directory target has just been refused, unprompted, after
\* another target of this session was written and recorded.
C23_Witness ==
    /\ pc = "skipping"
    /\ verdict = "refuse"
    /\ input = "-"
    /\ FileAt(target) = Directory
    /\ committed # EmptyMap

\* C24 as stated: once the content is written, a failing copy of the
\* permission bits is only a warning: the step after the write never ends
\* the session with an exception nobody catches.
C24_Original ==
    [][pc = "copied" => pc' # "crashed"]_vars

\* C28 as stated: when the operator is asked about overwriting a templated
\* target, its template has been parsed and rendered.
C28_Original ==
    pc = "prompt" /\ ~cur.binary => rendered # None

\* C29 as stated, its safety half: a run that has ended and was not killed
\* from outside has returned from run (after the final save, or at once on a
\* dry run) or was aborted by a CatastrophicError.
C29_Original ==
    pc \in Terminal \ {"killed"} => pc \in {"done", "aborted", "fatal"}

\* C30 as stated: when Parser's construction succeeds, the main block left
\* no line in the queue.
C30_Original ==
    pc = "parsed" => parser.rest = << >>

\* The parsed lines of the template.
Lines == [i \in 1 .. Len(raw_lines) |-> Line_parse(raw_lines[i], i - 1)]

\* How many if statements the lines i .. j open and do not close.
Nest(i, j) ==
    Cardinality({k \in i .. j : Kinds[k] = "IfStatement"})
        - Cardinality({k \in i .. j : Kinds[k] = "EndStatement"})

\* The end that matches the if on line i: the first line that brings the
\* nesting back to none.
Closing(i) ==
    {j \in i + 1 .. Len(raw_lines) :
        Nest(i, j) = 0 /\ \A k \in i .. j - 1 : Nest(i, k) >= 1}

\* The elif and else lines of the if on line i itself, up to line e.
Own(i, e) ==
    {j \in i + 1 .. e - 1 :
        Nest(i, j) = 1 /\ Kinds[j] \in {"ElifStatement", "ElseStatement"}}

\* Between the if on line i and line e, an elif or an else of that if comes
\* after an else of that if.
Misplaced(i, e) ==
    \E j, k \in Own(i, e) : j < k /\ Kinds[j] = "ElseStatement"

\* In a block's elements, at every depth, only the last section of an
\* if-block may lack a condition.
RECURSIVE ElseLast(_)
ElseLast(elements) ==
    \A i \in 1 .. Len(elements) :
        elements[i].kind = "IfBlock" =>
            LET sections == elements[i].sections IN
            /\ \A k \in 1 .. Len(sections) - 1 : sections[k].condition # None
            /\ \A k \in 1 .. Len(sections) : ElseLast(sections[k].block)

\* C25: for a template whose lines each parse and for every if line in it,
\* IfBlock construction from that line fails when no end matches the if, and
\* fails when an elif or a second else of that if follows its else; when it
\* succeeds it has consumed the lines up to exactly the matching end (so the
\* end of a nested if did not close it), it has one section for the if and
\* one per elif and else of its own, and only the last section lacks a
\* condition; and in the tree of a constructed Parser, at every depth, only
\* the last section of an if-block lacks a condition.
C25_IfBlockWellFormed ==
    Constructed /\ (\A i \in DOMAIN Kinds : Kinds[i] # "ParseException") =>
        /\ \A i \in DOMAIN Kinds :
             Kinds[i] = "IfStatement" =>
                LET built == IfBlock(SubSeq(Lines, i, Len(Lines))) IN
                /\ Closing(i) = {} => built.exception
                /\ \A e \in Closing(i) : Misplaced(i, e) => built.exception
                /\ ~built.exception =>
                     \E e \in Closing(i) :
                        /\ Len(built.rest) = Len(Lines) - e
                        /\ ~Misplaced(i, e)
                        /\ Len(built.elements) = 1
                        /\ Len(built.elements[1].sections)
                               = 1 + Cardinality(Own(i, e))
                        /\ ElseLast(built.elements)
        /\ pc \in {"parsed", "rendered", "execute_error"} => ElseLast(parser.elements)

\* C25's case: construction failed on a template that opens with an if
\* whose else is followed by an elif before the matching end.
C25_Witness ==
    /\ pc = "parse_error"
    /\ Len(raw_lines) = 4
    /\ Kinds = <<"IfStatement", "ElseStatement", "ElifStatement", "EndStatement">>
    /\ parser.on_line

\* A line that has an expression chunk whose evaluation raises.
RaisingLine(text) ==
    /\ _parse_chunks(text).ok
    /\ \E c \in 1 .. Len(_parse_chunks(text).chunks) :
           /\ _parse_chunks(text).chunks[c][2]
           /\ safer_eval(_parse_chunks(text).chunks[c][1], local_vars).exception

\* C27: when evaluate raises there is no text, and no target file, store
\* file or generation has changed; evaluate raises only when some name is
\* bound to nothing; a template without control lines raises exactly when
\* one of its lines has an expression that raises, whatever lines come
\* before it; and a template that opens with an if whose condition raises
\* is not rendered.
C27_FailedRenderGivesNoText ==
    /\ pc = "execute_error" =>
         /\ rendered.exception
         /\ rendered.text = << >>
         /\ fs = fs0
         /\ kf_file = kf0
         /\ tmp_file = Missing
         /\ new_known_files = EmptyMap
         /\ \E n \in Names : local_vars[n] = "raise"
    /\ pc \in {"rendered", "execute_error"}
         /\ (\A i \in DOMAIN Kinds : Kinds[i] = "ActualLine") =>
            (pc = "execute_error"
                <=> \E i \in 1 .. Len(raw_lines) : RaisingLine(raw_lines[i]))
    /\ pc \in {"rendered", "execute_error"}
         /\ Len(raw_lines) > 0 /\ Kinds[1] = "IfStatement"
         /\ safer_eval(Lines[1].argument, local_vars).exception
           => pc = "execute_error"

\* C27's case: evaluate raised on a template whose first line is plain text
\* and would have been rendered, and whose later line has the failing
\* expression.
C27_Witness ==
    /\ pc = "execute_error"
    /\ Len(raw_lines) >= 2
    /\ raw_lines[1] = <<"a">>
    /\ \A i \in DOMAIN Kinds : Kinds[i] = "ActualLine"
    /\ \E i \in 2 .. Len(raw_lines) : RaisingLine(raw_lines[i])

\* The configuration file imported a module.
Imported == self_config["os"] # NoObject

\* The base dictionary binds what it bound at the start, and every value in
\* it that is no module is what it was.
BaseKept(base, objs) ==
    \E imported \in BOOLEAN :
        /\ base = BaseBindings(imported)
        /\ \A n \in VarNames :
               base[n] # NoObject =>
                   /\ objs[base[n]].module = BaseObjects(imported)[base[n]].module
                   /\ ~objs[base[n]].module => objs[base[n]] = BaseObjects(imported)[base[n]]

\* dictionary "copy" is a copy of dictionary "local" but for the name
\* "except": unbound names stay unbound, a module is the same module, any
\* other value is an object of its own that equals the one in "local".
CopyOf(copy, objs_after, local, objs_before, except) ==
    \A n \in VarNames \ {except} :
        IF local[n] = NoObject THEN copy[n] = NoObject
        ELSE IF objs_before[local[n]].module THEN copy[n] = local[n]
        ELSE /\ copy[n] \notin {NoObject, local[n], self_config[n]}
             /\ objs_after[copy[n]] = objs_before[local[n]]

C22_Original ==
    pc = "bound" =>
        /\ objects[config_copy["filename"]].value = Filename(files_done - 1)
        /\ objects[config_copy["target"]].value = target

\* A line of three or more "=" and nothing else.
Separator(line) == Len(line) >= 3 /\ \A i \in 1 .. Len(line) : line[i] = "="

\* C26 as stated: once a source without a header file is read, the step
\* that follows goes on to the header script, which is the lines before the
\* first separator line (all lines when there is none), with the lines
\* after that separator as the body.
C26_Original ==
    [][pc = "split" =>
          LET seps == {i \in 1 .. Len(source_text) : Separator(source_text[i])}
              first == IF seps = {} THEN Len(source_text) + 1
                       ELSE CHOOSE i \in seps : \A j \in seps : i <= j IN
          /\ pc' = "inline_header"
          /\ script' = SubSeq(source_text, 1, first - 1)
          /\ raw_lines' = SubSeq(source_text, first + 1, Len(source_text))
      ]_vars

\* Evaluating a section's condition raises.
Raises(section) ==
    /\ section.condition # None
    /\ safer_eval(section.condition, local_vars).exception

\* C33: for an if-block of a constructed template, when a section's
\* condition raises and every condition before it is falsy, evaluating the
\* if-block raises; when a section's condition is absent or truthy and
\* every condition before it is falsy, evaluating the if-block raises
\* exactly when that section's block does, whatever the conditions after it
\* would do; and a template that is one if-block ends rendered or with the
\* exception accordingly.
C33_ConditionsInOrderUntilTruthy ==
    pc \in {"parsed", "rendered", "execute_error"} =>
        \A i \in 1 .. Len(parser.elements) :
            parser.elements[i].kind = "IfBlock" =>
                LET sections == parser.elements[i].sections
                    out == IfBlockEvaluate(sections, local_vars)
                    alone == Len(parser.elements) = 1 IN
                /\ \A k \in 1 .. Len(sections) :
                       Raises(sections[k]) /\ (\A j \in 1 .. k - 1 : Fails(sections[j]))
                           => /\ out.exception
                              /\ alone => pc # "rendered"
                /\ \A k \in 1 .. Len(sections) :
                       Holds(sections[k]) /\ (\A j \in 1 .. k - 1 : Fails(sections[j]))
                           => /\ out.exception
                                <=> BlockEvaluate(sections[k].block, local_vars).exception
                              /\ alone /\ ~out.exception => pc # "execute_error"

\* C33's case: a rendered template that is one if-block whose first
\* condition is truthy and whose second condition would raise.
C33_Witness ==
    /\ pc = "rendered"
    /\ Len(parser.elements) = 1
    /\ parser.elements[1].kind = "IfBlock"
    /\ Len(parser.elements[1].sections) >= 2
    /\ Holds(parser.elements[1].sections[1])
    /\ Raises(parser.elements[1].sections[2])
    /\ rendered.text # << >>

\* C31: the step that answers the continue-or-abort prompt either asks
\* again, goes on with the next source, or ends the session as aborted (or
\* the process is killed); when it aborts, no file changes, no final save
\* has happened, no temporary file is left, and the store file holds, for
\* every path, the hash of the target completed in this session, or else
\* exactly what it held for the path when the session started; and an
\* aborted session does nothing more.
C31_AbortSkipsFinalize ==
    [][/\ pc = "lce" /\ pc' \notin {"lce", "files", "killed"} =>
            /\ pc' = "aborted"
            /\ fs' = fs
            /\ kf_file' = kf_file
            /\ tmp_file' = Missing
            /\ last_save' # "final"
            /\ \A p \in Paths :
                   Entries(kf_file', p) = IF p \in DOMAIN committed
                                          THEN {committed[p]}
                                          ELSE Entries(kf0, p)
       /\ pc = "aborted" => UNCHANGED vars
      ]_vars

\* C31's case: a session aborted after it had completed a target, with a
\* path in the store from before the session that the session did not write.
C31_Witness ==
    /\ pc = "aborted"
    /\ committed # EmptyMap
    /\ kf_file # kf0
    /\ \E p \in DOMAIN LoadKnownFiles(kf0) : p \notin DOMAIN committed

\* C32: the step after a target is written records it, or fails on the
\* permission bits, or raises LessCatastrophicError (or the process is
\* killed); it never goes on to the next target.  When it raises, the
\* written target stays as written, the store file and both generations are
\* unchanged, the target is not in the new generation, and process_file is
\* left for the caller's handler; from the handler's prompt the session
\* asks again, goes on with the next source or aborts.
C32_RehashFailureEndsTheFile ==
    [][/\ pc = "copied" =>
            pc' \in {"copied", "save_open", "lce", "crashed", "killed"}
       /\ pc = "copied" /\ pc' = "lce" =>
            /\ fs' = fs
            /\ FileAt(target) = RegularFile(cur.content)
            /\ kf_file' = kf_file
            /\ tmp_file' = tmp_file
            /\ old_known_files' = old_known_files
            /\ new_known_files' = new_known_files
            /\ _normalize_path(target) \notin DOMAIN new_known_files'
            /\ cur' = NoSource
            /\ target' = "None"
       /\ pc = "lce" => pc' \in {"lce", "files", "aborted", "killed"}
      ]_vars

\* C32's case: the first source's only target so far was written and its
\* hash failed: the handler's prompt is open, the written file is not in the
\* new generation.
C32_Witness ==
    /\ pc = "lce"
    /\ files_done = 1
    /\ tcount = 1
    /\ \E p \in Paths :
           /\ fs[p] # fs0[p]
           /\ fs[p].kind = "file"
           /\ fs[p].content # Partial
           /\ p \notin DOMAIN new_known_files

\* C34 as stated: once a source without a header file and without a
\* separator line is read, the step that follows goes on with all its lines
\* as the header script and no line as the body.
C34_Original ==
    [][pc = "split" /\ (\A i \in 1 .. Len(source_text) : ~Separator(source_text[i])) =>
          /\ pc' = "inline_header"
          /\ script' = source_text
          /\ raw_lines' = << >>
      ]_vars

====
